---- MODULE Spec2Model ----
(***************************************************************************)
(* Model of message_tagging_service/tagging_service.py: the rule matching  *)
(* engine (RuleDef, RuleMatch), the tag dispatcher (tag_build) and the     *)
(* event handler (handle).                                                 *)
(*                                                                         *)
(* Python values are tagged records: None, bool, str (a sequence of        *)
(* one-character strings), list, dict (a sequence of key/value pairs in    *)
(* insertion order).  A rule string is a regular expression; it is kept    *)
(* in parsed form (tag "re").                                              *)
(***************************************************************************)
EXTENDS Integers, Sequences, FiniteSets, TLC

VARIABLES raw_def, rule_obj, calls, last_doc, result,
          rule_defs, dry_run, pc, events, event_msg, outcome, rule_matches,
          nvr, dest_tags, idx, session, klog

vars == <<raw_def, rule_obj, calls, last_doc, result,
          rule_defs, dry_run, pc, events, event_msg, outcome, rule_matches,
          nvr, dest_tags, idx, session, klog>>

matchVars == <<raw_def, rule_obj, calls, last_doc, result>>

handleVars == <<rule_defs, dry_run, pc, events, event_msg, outcome, rule_matches,
                nvr, dest_tags, idx, session, klog>>

(***************************************************************************)
(* Bounds of the model.                                                    *)
(***************************************************************************)
MaxCalls == 2
MaxRules == 2
MaxEvents == 2

(***************************************************************************)
(* Python values.                                                          *)
(***************************************************************************)
None == [t |-> "none"]

Bool(b) == [t |-> "bool", b |-> b]

Str(s) == [t |-> "str", s |-> s]

List(l) == [t |-> "list", l |-> l]

Dict(d) == [t |-> "dict", d |-> d]

KV(k, v) == [k |-> k, v |-> v]

IsNone(v) == v.t = "none"

IsStr(v) == v.t = "str"

IsList(v) == v.t = "list"

IsDict(v) == v.t = "dict"

\* key in d
HasKey(d, key) == \E i \in 1..Len(d.d) : d.d[i].k = key

\* d[key], for a key that is present
Item(d, key) == d.d[CHOOSE i \in 1..Len(d.d) : d.d[i].k = key].v

\* d.get(key, default)
Get(d, key, default) == IF HasKey(d, key) THEN Item(d, key) ELSE default

(***************************************************************************)
(* Regular expressions.  A pattern is a sequence of character classes      *)
(* (sets of characters): the classes of pre, then the classes of grp.      *)
(* When named is TRUE grp is the named group (?P<ver>...), the only group  *)
(* name of the model.  A replacement template is a sequence of characters  *)
(* and of references GroupRef to that group.                               *)
(***************************************************************************)
Digit == {"2", "9"}

GroupRef == "\\g<ver>"

Regex(pre, grp, named) == [t |-> "re", pre |-> pre, grp |-> grp, named |-> named]

Pattern(regex) == regex.pre \o regex.grp

\* the pattern matches s at position i
MatchAt(regex, s, i) ==
    /\ i + Len(Pattern(regex)) - 1 <= Len(s)
    /\ \A j \in 1..Len(Pattern(regex)) : s[i + j - 1] \in Pattern(regex)[j]

\* re.search(regex, s) finds a match
re_search(regex, s) == \E i \in 1..Len(s) : MatchAt(regex, s, i)

\* where the match of re.search starts: the leftmost position
MatchStart(regex, s) ==
    CHOOSE i \in 1..Len(s) :
        /\ MatchAt(regex, s, i)
        /\ \A j \in 1..(i - 1) : ~MatchAt(regex, s, j)

\* match.groupdict() is non-empty
HasGroupDict(regex) == regex.named

\* the text the named group captured in the match starting at i
Capture(regex, s, i) ==
    SubSeq(s, i + Len(regex.pre), i + Len(Pattern(regex)) - 1)

RECURSIVE ExpandTemplate(_, _)
\* match.expand(repl): the template with the group reference replaced
ExpandTemplate(repl, cap) ==
    IF repl = <<>> THEN <<>>
    ELSE (IF Head(repl) = GroupRef THEN cap ELSE <<Head(repl)>>)
         \o ExpandTemplate(Tail(repl), cap)

RECURSIVE SubFrom(_, _, _, _)
\* re.sub scanning s from position i: every non-overlapping match is
\* replaced by the expanded template, every other character is kept
SubFrom(regex, repl, s, i) ==
    IF i > Len(s) THEN <<>>
    ELSE IF MatchAt(regex, s, i)
         THEN ExpandTemplate(repl, Capture(regex, s, i))
              \o SubFrom(regex, repl, s, i + Len(Pattern(regex)))
         ELSE <<s[i]>> \o SubFrom(regex, repl, s, i + 1)

\* re.sub(regex, repl, s) for a str repl
re_sub(regex, repl, s) == SubFrom(regex, repl, s, 1)

RECURSIVE ReprItems(_)
\* the items of repr(list of str): 'a', 'b'
ReprItems(l) ==
    IF l = <<>> THEN <<>>
    ELSE <<"'">> \o Head(l).s \o <<"'">>
         \o (IF Tail(l) = <<>> THEN <<>> ELSE <<",", " ">> \o ReprItems(Tail(l)))

\* str(v) for a str, a bool, None or a list of str
PyStr(v) ==
    CASE v.t = "str" -> v.s
      [] v.t = "bool" -> IF v.b THEN <<"T", "r", "u", "e">>
                                ELSE <<"F", "a", "l", "s", "e">>
      [] v.t = "none" -> <<"N", "o", "n", "e">>
      [] v.t = "list" -> <<"[">> \o ReprItems(v.l) \o <<"]">>

(***************************************************************************)
(* RuleMatch and the outcome of a call: a returned value or an exception.  *)
(***************************************************************************)
RuleMatch(matched, dest_tag) ==
    [kind |-> "RuleMatch", matched |-> matched, dest_tag |-> dest_tag]

Raise(exc) == [kind |-> "raise", exc |-> exc]

\* RuleMatch.__bool__
truth(m) == m.matched

\* the outcome of a find_diff_* call: its return value or the exception it
\* raised, with _regex_has_named_group as the call left it
Found(ok, ng) == [exc |-> "none", ok |-> ok, ng |-> ng]

Failed(exc, ng) == [exc |-> exc, ok |-> FALSE, ng |-> ng]

(***************************************************************************)
(* RuleDef                                                                 *)
(***************************************************************************)
\* the required names without destinations
RequiredNamesNoDestinations == <<"id", "type">>

\* the names RuleDef.__init__ requires
RequiredNames == <<"id", "type", "destinations">>

\* RuleDef.__init__: the new object, or the exception
RuleDefInit(data) ==
    IF \E i \in 1..Len(RequiredNames) : ~HasKey(data, RequiredNames[i])
    THEN Raise("ValueError")
    ELSE [kind |-> "RuleDef", data |-> data,
          property_matches |-> <<>>, regex_has_named_group |-> <<>>]

\* RuleDef.rule
rule(self) == Get(self.data, "rule", None)

\* RuleDef.destinations
destinations(self) == Item(self.data, "destinations")

RECURSIVE FindValueFrom(_, _, _, _)
\* the loop of find_diff_value over check_values from index i
FindValueFrom(regex, check_values, i, ng) ==
    IF i > Len(check_values) THEN Found(FALSE, ng)
    ELSE IF regex.t # "re" \/ ~IsStr(check_values[i])
         THEN Failed("TypeError", ng)
         ELSE IF re_search(regex, check_values[i].s)
              THEN Found(TRUE, IF HasGroupDict(regex)
                               THEN Append(ng, <<regex, check_values[i].s>>)
                               ELSE ng)
              ELSE FindValueFrom(regex, check_values, i + 1, ng)

find_diff_value(regex, mmd_property_value, ng) ==
    FindValueFrom(regex,
                  IF IsList(mmd_property_value) THEN mmd_property_value.l
                  ELSE <<mmd_property_value>>,
                  1, ng)

RECURSIVE FindListFrom(_, _, _, _)
\* the loop of find_diff_list over match_candidates from index i
FindListFrom(match_candidates, mmd_property_value, i, ng) ==
    IF i > Len(match_candidates) THEN Found(FALSE, ng)
    ELSE LET r == find_diff_value(match_candidates[i], mmd_property_value, ng)
         IN  IF r.exc # "none" \/ r.ok THEN r
             ELSE FindListFrom(match_candidates, mmd_property_value, i + 1, r.ng)

find_diff_list(match_candidates, mmd_property_value, ng) ==
    FindListFrom(match_candidates, mmd_property_value, 1, ng)

RECURSIVE FindDictFrom(_, _, _, _)
\* the loop of find_diff_dict over rule_dict.items() from index i
FindDictFrom(rule_dict, check_dict, i, ng) ==
    IF i > Len(rule_dict.d) THEN Found(TRUE, ng)
    ELSE IF ~IsDict(check_dict) THEN Failed("AttributeError", ng)
    ELSE LET key == rule_dict.d[i].k
             value == rule_dict.d[i].v
             new_check_dict == Get(check_dict, key, None)
         IN  IF IsNone(new_check_dict) THEN Found(FALSE, ng)
             ELSE LET r == IF IsDict(value)
                           THEN FindDictFrom(value, new_check_dict, 1, ng)
                           ELSE IF IsList(value)
                           THEN find_diff_list(value.l, new_check_dict, ng)
                           ELSE find_diff_value(value, new_check_dict, ng)
                  IN  IF r.exc # "none" \/ ~r.ok THEN r
                      ELSE FindDictFrom(rule_dict, check_dict, i + 1, r.ng)

find_diff_dict(rule_dict, check_dict, ng) ==
    FindDictFrom(rule_dict, check_dict, 1, ng)

\* value_to_check[0]
FirstItem(v) ==
    CASE v.t = "dict" -> Raise("KeyError")
      [] v.t = "list" -> IF v.l = <<>> THEN Raise("IndexError") ELSE v.l[1]
      [] v.t = "str" -> IF v.s = <<>> THEN Raise("IndexError") ELSE Str(<<v.s[1]>>)
      [] OTHER -> Raise("TypeError")

\* a default of True for the boolean properties
BoolDefaultTrue == Bool(TRUE)

\* the default of modulemd['data'].get(property, False) for scratch and
\* development
BoolDefault == Bool(FALSE)

\* the check of the boolean properties scratch and development
CheckBool(property, expected, data, ng) ==
    Found(expected = Get(data, property, BoolDefault), ng)

\* the check of one (property, expected) item of the rule in match
CheckProperty(property, expected, modulemd, ng) ==
    IF ~IsDict(modulemd) THEN Failed("TypeError", ng)
    ELSE IF ~HasKey(modulemd, "data") THEN Failed("KeyError", ng)
    ELSE LET data == Item(modulemd, "data")
         IN  IF property \in {"scratch", "development"}
             THEN CheckBool(property, expected, data, ng)
             ELSE LET value_to_check == Get(data, property, None)
                  IN  IF IsNone(value_to_check) THEN Found(FALSE, ng)
                      ELSE IF IsDict(expected)
                      THEN LET first == FirstItem(value_to_check)
                           IN  IF "kind" \in DOMAIN first
                               THEN Failed(first.exc, ng)
                               ELSE find_diff_dict(expected, first, ng)
                      ELSE IF IsList(expected)
                      THEN find_diff_list(expected.l, value_to_check, ng)
                      ELSE find_diff_value(expected, Str(PyStr(value_to_check)), ng)

RECURSIVE MatchFrom(_, _, _, _, _)
\* the loop of match over self.rule.items() from index i: the accumulators
\* as the loop leaves them, and the exception that ended it, if any
MatchFrom(items, modulemd, i, pm, ng) ==
    IF i > Len(items) THEN [exc |-> "none", pm |-> pm, ng |-> ng]
    ELSE LET r == CheckProperty(items[i].k, items[i].v, modulemd, ng)
         IN  IF r.exc # "none" THEN [exc |-> r.exc, pm |-> pm, ng |-> r.ng]
             ELSE MatchFrom(items, modulemd, i + 1, Append(pm, r.ok), r.ng)

\* all(self._property_matches)
all(pm) == \A i \in 1..Len(pm) : pm[i]

\* the destination match builds from the recorded (regex, value) pairs
FormatDestTag(dest, ng) ==
    IF ~IsStr(dest) THEN Raise("TypeError")
    ELSE RuleMatch(TRUE, Str(re_sub(ng[Len(ng)][1], dest.s, ng[Len(ng)][2])))

\* a match without criteria that drops the destinations
NoCriteriaNoTag(self) == RuleMatch(TRUE, None)

\* what match returns when no rule criteria is defined
NoCriteria(self) == RuleMatch(TRUE, destinations(self))

\* RuleDef.match: the object after the call and what the call returned
match(self, modulemd) ==
    IF IsNone(rule(self))
    THEN [self |-> self, ret |-> NoCriteria(self)]
    ELSE IF ~IsDict(rule(self))
    THEN [self |-> self, ret |-> Raise("AttributeError")]
    ELSE LET loop == MatchFrom(rule(self).d, modulemd, 1,
                               self.property_matches, self.regex_has_named_group)
             after == [self EXCEPT !.property_matches = loop.pm,
                                   !.regex_has_named_group = loop.ng]
         IN  [self |-> after,
              ret |-> IF loop.exc # "none" THEN Raise(loop.exc)
                      ELSE IF all(loop.pm)
                      THEN IF loop.ng # <<>>
                           THEN FormatDestTag(destinations(self), loop.ng)
                           ELSE RuleMatch(TRUE, destinations(self))
                      ELSE RuleMatch(FALSE, None)]

(***************************************************************************)
(* Inputs: regular expressions, destinations, rule definitions and         *)
(* modulemd documents.                                                     *)
(***************************************************************************)
\* f2
ReLit == Regex(<<{"f"}, {"2"}>>, <<>>, FALSE)

\* (?P<ver>f\d)
ReVer == Regex(<<>>, <<{"f"}, Digit>>, TRUE)

\* f(?P<ver>\d)
ReNum == Regex(<<{"f"}>>, <<Digit>>, TRUE)

\* x
ReX == Regex(<<{"x"}>>, <<>>, FALSE)

\* destinations: t
DestPlain == Str(<<"t">>)

\* destinations: t-\g<ver>
DestGroup == Str(<<"t", "-", GroupRef>>)

\* destinations: [a, b]
DestList == List(<<Str(<<"a">>), Str(<<"b">>)>>)

Dests == {DestPlain, DestGroup, DestList}

Platform(regex) == Dict(<<KV("platform", regex)>>)

\* the rule predicates of the model; Absent stands for a definition
\* without the key rule
Absent == [t |-> "absent"]

BoolRules ==
    { Dict(<<KV("scratch", Bool(TRUE))>>),
      Dict(<<KV("scratch", Bool(FALSE))>>),
      Dict(<<KV("development", Bool(TRUE))>>),
      Dict(<<KV("development", Bool(FALSE))>>),
      Dict(<<KV("scratch", Bool(TRUE)), KV("development", Bool(FALSE))>>) }

RegexRules ==
    { Dict(<<KV("name", ReLit)>>),
      Dict(<<KV("name", ReVer)>>),
      Dict(<<KV("name", List(<<ReX, ReVer>>))>>),
      Dict(<<KV("name", ReVer), KV("stream", ReNum)>>),
      Dict(<<KV("scratch", Bool(FALSE)), KV("name", ReVer)>>) }

DictRules ==
    { Dict(<<KV("dependencies", Dict(<<KV("requires", Platform(ReLit))>>))>>),
      Dict(<<KV("dependencies", Dict(<<KV("requires", Platform(ReVer))>>))>>),
      Dict(<<KV("dependencies", Dict(<<KV("buildrequires", Platform(ReLit)),
                                       KV("requires", Platform(ReVer))>>))>>) }

Rules == {Absent, None, Dict(<<>>)} \cup BoolRules \cup RegexRules \cup DictRules

\* a raw rule definition: the names in missing are left out, the key rule
\* is left out for Absent
RawDef(missing, desc, r, dest) ==
    Dict(  (IF "id" \in missing THEN <<>> ELSE <<KV("id", Str(<<"r">>))>>)
        \o (IF "type" \in missing THEN <<>> ELSE <<KV("type", Str(<<"m">>))>>)
        \o (IF desc THEN <<KV("description", Str(<<"d">>))>> ELSE <<>>)
        \o (IF r = Absent THEN <<>> ELSE <<KV("rule", r)>>)
        \o (IF "destinations" \in missing THEN <<>> ELSE <<KV("destinations", dest)>>))

RawDefs ==
    { RawDef(missing, desc, r, dest) :
        missing \in SUBSET {"id", "type", "destinations"}, desc \in BOOLEAN,
        r \in Rules, dest \in Dests }

PlatformOf(l) == Dict(<<KV("platform", List(l))>>)

\* data.dependencies of a modulemd
DepsBoth == Dict(<<KV("buildrequires", PlatformOf(<<Str(<<"f", "2">>)>>)),
                   KV("requires", PlatformOf(<<Str(<<"x", "9">>), Str(<<"f", "9">>)>>))>>)

DepsRequires == Dict(<<KV("requires", PlatformOf(<<Str(<<"f", "2">>)>>))>>)

DepsBuildOnly == Dict(<<KV("buildrequires", PlatformOf(<<Str(<<"f", "2">>)>>))>>)

Modulemd(data) == Dict(<<KV("document", Str(<<"m">>)), KV("data", Dict(data))>>)

Modulemds ==
    { Dict(<<KV("document", Str(<<"m">>))>>),
      Modulemd(<<>>),
      Modulemd(<<KV("name", Str(<<"f", "2">>)), KV("scratch", Bool(TRUE))>>),
      Modulemd(<<KV("name", Str(<<"x", "f", "2", "x">>)), KV("scratch", Bool(FALSE)),
                 KV("development", Bool(TRUE))>>),
      Modulemd(<<KV("name", Str(<<"f", "9">>)), KV("stream", Str(<<"f", "2">>))>>),
      Modulemd(<<KV("name", Str(<<"x">>)), KV("development", Bool(FALSE))>>),
      Modulemd(<<KV("name", List(<<Str(<<"f", "2">>), Str(<<"x">>)>>))>>),
      Modulemd(<<KV("dependencies", List(<<DepsBoth>>))>>),
      Modulemd(<<KV("dependencies", List(<<DepsBuildOnly>>))>>),
      Modulemd(<<KV("dependencies", List(<<>>))>>),
      Modulemd(<<KV("dependencies", DepsRequires)>>),
      Modulemd(<<KV("dependencies", DepsBuildOnly)>>),
      Modulemd(<<KV("name", Str(<<"f", "2">>)),
                 KV("dependencies", List(<<DepsRequires>>))>>) }

(***************************************************************************)
(* One RuleDef object and the calls made on it.                            *)
(***************************************************************************)
NoObject == [kind |-> "none"]

HandleIdle ==
    /\ rule_defs = <<>>
    /\ dry_run = FALSE
    /\ pc = "idle"
    /\ events = 0
    /\ event_msg = None
    /\ outcome = "none"
    /\ rule_matches = <<>>
    /\ nvr = <<>>
    /\ dest_tags = <<>>
    /\ idx = 0
    /\ session = "none"
    /\ klog = <<>>

MatchIdle ==
    /\ raw_def = None
    /\ rule_obj = NoObject
    /\ calls = 0
    /\ last_doc = None
    /\ result = None

InitMatch ==
    /\ MatchIdle
    /\ HandleIdle

\* obj = RuleDef(data)
Construct(data) ==
    /\ rule_obj = NoObject
    /\ rule_obj' = RuleDefInit(data)
    /\ raw_def' = data
    /\ UNCHANGED <<calls, last_doc, result>>
    /\ UNCHANGED handleVars

\* obj.match(modulemd)
Match(modulemd) ==
    /\ rule_obj.kind = "RuleDef"
    /\ calls < MaxCalls
    /\ LET m == match(rule_obj, modulemd)
       IN  /\ rule_obj' = m.self
           /\ result' = m.ret
    /\ calls' = calls + 1
    /\ last_doc' = modulemd
    /\ UNCHANGED raw_def
    /\ UNCHANGED handleVars

NextMatch ==
    \/ \E data \in RawDefs : Construct(data)
    \/ \E modulemd \in Modulemds : Match(modulemd)

SpecMatch == InitMatch /\ [][NextMatch]_vars

(***************************************************************************)
(* handle and tag_build.                                                   *)
(***************************************************************************)
RECURSIVE Replace(_, _, _)
\* s.replace(old, new) for one-character old and new
Replace(s, old, new) ==
    IF s = <<>> THEN <<>>
    ELSE <<IF Head(s) = old THEN new ELSE Head(s)>> \o Replace(Tail(s), old, new)

\* f'{this_name}-{stream}-{this_version}.{this_context}'
Nvr(msg) ==
    msg.name \o <<"-">> \o Replace(msg.stream, "-", "_") \o <<"-">>
        \o msg.version \o <<".">> \o msg.context

RECURSIVE EvaluateFrom(_, _, _, _)
\* the generator of handle after RuleDef(rule_def).match(modulemd) gave m
\* for definition i: the exception ends it, a true match is kept
EvaluateNext(defs, modulemd, i, kept, m) ==
    IF m.kind = "raise" THEN [exc |-> m.exc, matches |-> kept]
    ELSE EvaluateFrom(defs, modulemd, i + 1,
                      IF truth(m) THEN Append(kept, m) ELSE kept)

\* list(filter(truth, (RuleDef(rule_def).match(modulemd) for ...))) from
\* index i: the matches kept so far, or the exception that ended it
EvaluateFrom(defs, modulemd, i, kept) ==
    IF i > Len(defs) THEN [exc |-> "none", matches |-> kept]
    ELSE IF RuleDefInit(defs[i]).kind = "raise"
         THEN [exc |-> RuleDefInit(defs[i]).exc, matches |-> kept]
         ELSE EvaluateNext(defs, modulemd, i, kept,
                           match(RuleDefInit(defs[i]), modulemd).ret)

\* ', '.join(dest_tags) raises TypeError unless every item is a str
JoinRaises(tags) == \E i \in 1..Len(tags) : ~IsStr(tags[i])

\* a loop that a failed tagBuild ends
AfterTagBuildAbort(ok, i, tags) ==
    IF ~ok THEN "raised" ELSE IF i < Len(tags) THEN "tagBuild" ELSE "logout"

\* where tag_build goes after tagBuild on tag i returned or raised
AfterTagBuild(ok, i, tags) == IF i < Len(tags) THEN "tagBuild" ELSE "logout"

\* the messages and the outcomes of the retrieval of the modulemd
Streams == {<<"a", "-", "b">>, <<"s">>}

HandleModulemds ==
    { Modulemd(<<>>),
      Modulemd(<<KV("name", Str(<<"f", "2">>)), KV("scratch", Bool(TRUE))>>),
      Modulemd(<<KV("name", Str(<<"x">>)), KV("development", Bool(FALSE))>>),
      Modulemd(<<KV("dependencies", DepsRequires)>>) }

Retrievals ==
    {[status |-> "HTTPError", modulemd |-> None], [status |-> "YAMLError", modulemd |-> None]}
        \cup {[status |-> "ok", modulemd |-> m] : m \in HandleModulemds}

EventMsg(stream, retrieval) ==
    [name |-> <<"n">>, stream |-> stream, version |-> <<"1">>, context |-> <<"c">>,
     retrieval |-> retrieval]

\* destinations: u
DestOther == Str(<<"u">>)

HandleDefs ==
    { RawDef({}, FALSE, Absent, DestPlain),
      RawDef({}, TRUE, None, DestList),
      RawDef({}, FALSE, Dict(<<KV("name", ReVer)>>), DestGroup),
      RawDef({}, FALSE, Dict(<<KV("name", ReLit)>>), DestOther),
      RawDef({}, FALSE, Dict(<<KV("scratch", Bool(TRUE))>>), DestOther),
      RawDef({}, FALSE,
             Dict(<<KV("dependencies", Dict(<<KV("requires", Platform(ReLit))>>))>>),
             DestPlain),
      RawDef({"id"}, FALSE, Absent, DestPlain) }

RECURSIVE SeqsUpTo(_, _)
\* the sequences over S of length at most n
SeqsUpTo(S, n) ==
    IF n = 0 THEN {<<>>}
    ELSE LET shorter == SeqsUpTo(S, n - 1)
         IN  shorter \cup {Append(q, x) : q \in shorter, x \in S}

InitHandle ==
    /\ rule_defs \in SeqsUpTo(HandleDefs, MaxRules)
    /\ dry_run \in BOOLEAN
    /\ pc = "idle"
    /\ events = 0
    /\ event_msg = None
    /\ outcome = "none"
    /\ rule_matches = <<>>
    /\ nvr = <<>>
    /\ dest_tags = <<>>
    /\ idx = 0
    /\ session = "none"
    /\ klog = <<>>
    /\ MatchIdle

\* how handle leaves the event: returned, raised, or calling tag_build
HandleEnd(how, at, matches, build, tags) ==
    [outcome |-> how, pc |-> at, rule_matches |-> matches, nvr |-> build,
     dest_tags |-> tags]

\* handle from "if rule_matches:" on, for the evaluation ev of the rules
HandleMatches(msg, dry, ev, tags) ==
    IF ev.exc # "none" THEN HandleEnd(ev.exc, "raised", <<>>, <<>>, <<>>)
    ELSE IF ev.matches = <<>>
    THEN HandleEnd("returned", "idle", ev.matches, <<>>, <<>>)
    ELSE IF JoinRaises(tags)
    THEN HandleEnd("TypeError", "raised", ev.matches, Nvr(msg), tags)
    ELSE IF dry
    THEN HandleEnd("returned", "idle", ev.matches, Nvr(msg), tags)
    ELSE HandleEnd("tag_build", "krb_login", ev.matches, Nvr(msg), tags)

\* dest_tags = [item.dest_tag for item in rule_matches]
DestTags(matches) == [i \in 1..Len(matches) |-> matches[i].dest_tag]

\* handle after the rules were evaluated
HandleEvaluated(msg, dry, ev) == HandleMatches(msg, dry, ev, DestTags(ev.matches))

\* handle(rule_defs, event_msg) up to its return, its exception or its
\* call of tag_build
handle(defs, msg, dry) ==
    IF msg.retrieval.status = "HTTPError"
    THEN HandleEnd("returned", "idle", <<>>, <<>>, <<>>)
    ELSE IF msg.retrieval.status = "YAMLError"
    THEN HandleEnd("YAMLError", "raised", <<>>, <<>>, <<>>)
    ELSE HandleEvaluated(msg, dry,
                         EvaluateFrom(defs, msg.retrieval.modulemd, 1, <<>>))

\* one event is handled
Handle(msg) ==
    /\ pc = "idle"
    /\ events < MaxEvents
    /\ events' = events + 1
    /\ event_msg' = msg
    /\ klog' = <<>>
    /\ session' = "none"
    /\ idx' = 0
    /\ \E h \in {handle(rule_defs, msg, dry_run)} :
          /\ outcome' = h.outcome
          /\ pc' = h.pc
          /\ rule_matches' = h.rule_matches
          /\ nvr' = h.nvr
          /\ dest_tags' = h.dest_tags
    /\ UNCHANGED <<rule_defs, dry_run>>
    /\ UNCHANGED matchVars

\* tag_build: the session is created and logged in
KrbLogin ==
    /\ pc = "krb_login"
    /\ klog' = Append(klog, [op |-> "krb_login"])
    /\ session' = "open"
    /\ idx' = 1
    /\ pc' = IF dest_tags = <<>> THEN "logout" ELSE "tagBuild"
    /\ UNCHANGED <<rule_defs, dry_run, events, event_msg, outcome, rule_matches,
                   nvr, dest_tags>>
    /\ UNCHANGED matchVars

\* tag_build: koji_session.tagBuild(tag, nvr) returns (ok) or raises
TagBuild(ok) ==
    /\ pc = "tagBuild"
    /\ klog' = Append(klog, [op |-> "tagBuild", tag |-> dest_tags[idx],
                             nvr |-> nvr, ok |-> ok])
    /\ idx' = idx + 1
    /\ pc' = AfterTagBuild(ok, idx, dest_tags)
    /\ outcome' = IF pc' = "raised" THEN "Exception" ELSE outcome
    /\ UNCHANGED <<rule_defs, dry_run, events, event_msg, rule_matches,
                   nvr, dest_tags, session>>
    /\ UNCHANGED matchVars

\* tag_build: koji_session.logout(), then handle returns
Logout ==
    /\ pc = "logout"
    /\ klog' = Append(klog, [op |-> "logout"])
    /\ session' = "closed"
    /\ pc' = "idle"
    /\ outcome' = "returned"
    /\ UNCHANGED <<rule_defs, dry_run, events, event_msg, rule_matches,
                   nvr, dest_tags, idx>>
    /\ UNCHANGED matchVars

NextHandle ==
    \/ \E stream \in Streams, retrieval \in Retrievals :
            Handle(EventMsg(stream, retrieval))
    \/ KrbLogin
    \/ \E ok \in BOOLEAN : TagBuild(ok)
    \/ Logout

SpecHandle == InitHandle /\ [][NextHandle]_vars

(***************************************************************************)
(* Properties of RuleDef, checked under SpecMatch.                         *)
(***************************************************************************)
\* a call of match has been made on the object
Called == rule_obj.kind = "RuleDef" /\ calls >= 1

\* what a newly constructed RuleDef(data) returns for modulemd
FreshMatch(data, modulemd) == match(RuleDefInit(data), modulemd).ret

\* the modulemd has the key data
HasData(modulemd) == HasKey(modulemd, "data")

\* the mapping a mapping predicate is looked up in: the value itself, or
\* the first mapping of a list of mappings
AsMapping(v) ==
    IF IsDict(v) THEN v
    ELSE IF IsList(v) /\ v.l # <<>> /\ IsDict(v.l[1]) THEN v.l[1]
    ELSE Dict(<<>>)

RECURSIVE SomeAbsent(_, _)
\* a property named in rule_dict, at any depth, is not in the mapping doc;
\* scratch and development have a default and are never absent
SomeAbsent(rule_dict, doc) ==
    \E i \in 1..Len(rule_dict.d) :
        LET key == rule_dict.d[i].k
            value == rule_dict.d[i].v
        IN  /\ key \notin {"scratch", "development"}
            /\ \/ ~HasKey(doc, key)
               \/ /\ IsDict(value)
                  /\ SomeAbsent(value, AsMapping(Item(doc, key)))

\* the rule predicate of the definition the object was constructed from
TheRule == Get(raw_def, "rule", None)

\* the destinations of the definition the object was constructed from
TheDest == Item(raw_def, "destinations")

\* the data mapping of the modulemd of the last call
TheData == Item(last_doc, "data")

\* C1: whenever a property named in the rule predicate, at the top level
\* or at any depth of a mapping predicate, is absent from the document,
\* match returns a non-matched outcome and raises no exception.
C1_AbsentPropertyIsNonMatch ==
    (Called /\ IsDict(TheRule) /\ HasData(last_doc) /\ SomeAbsent(TheRule, TheData))
        => result = RuleMatch(FALSE, None)

\* the rule {dependencies: {requires: {platform: R}}}
IsRequiresPlatformRule(r) ==
    /\ IsDict(r) /\ Len(r.d) = 1 /\ r.d[1].k = "dependencies"
    /\ IsDict(r.d[1].v) /\ Len(r.d[1].v.d) = 1 /\ r.d[1].v.d[1].k = "requires"
    /\ IsDict(r.d[1].v.d[1].v) /\ Len(r.d[1].v.d[1].v.d) = 1
    /\ r.d[1].v.d[1].v.d[1].k = "platform"

\* the regular expression R of that rule
RequiresPlatformRegex(r) == r.d[1].v.d[1].v.d[1].v

\* data.dependencies is a mapping
DependenciesIsMapping(modulemd) ==
    /\ HasData(modulemd)
    /\ HasKey(Item(modulemd, "data"), "dependencies")
    /\ IsDict(Item(Item(modulemd, "data"), "dependencies"))

\* R matches one of the strings of dependencies.requires.platform
RequiresPlatformMatches(regex, deps) ==
    /\ HasKey(deps, "requires")
    /\ HasKey(Item(deps, "requires"), "platform")
    /\ \E i \in 1..Len(Item(Item(deps, "requires"), "platform").l) :
          re_search(regex, Item(Item(deps, "requires"), "platform").l[i].s)

\* C2: for a rule {dependencies: {requires: {platform: R}}} and a document
\* whose data.dependencies is a mapping, the first match of a new rule
\* object returns matched exactly when R matches one of the strings of
\* requires.platform, and non-matched when a sub-key is missing.
C2_NestedMappingMatch ==
    (Called /\ calls = 1 /\ IsRequiresPlatformRule(TheRule)
        /\ DependenciesIsMapping(last_doc))
        => /\ result.kind = "RuleMatch"
           /\ result.matched = RequiresPlatformMatches(RequiresPlatformRegex(TheRule),
                                                       Item(TheData, "dependencies"))

\* the last recorded (regex, value) pair of the object
LastPair == rule_obj.regex_has_named_group[Len(rule_obj.regex_has_named_group)]

\* the destinations template with the group captured by regex in value
Substituted(template, regex, value) ==
    ExpandTemplate(template, Capture(regex, value, MatchStart(regex, value)))

\* C3: when the first match of a new rule object matches, the destination
\* is the destinations template with the captured group of the last
\* recorded (regex, value) pair substituted into it, whatever the length
\* of the value, and the literal destinations when no pair was recorded.
C3_DestinationFromLastPair ==
    (Called /\ calls = 1 /\ result.kind = "RuleMatch" /\ result.matched
        /\ IsStr(TheDest))
        => result.dest_tag =
              IF rule_obj.regex_has_named_group = <<>> THEN TheDest
              ELSE Str(Substituted(TheDest.s, LastPair[1], LastPair[2]))

\* C7: constructing a RuleDef fails with ValueError exactly when id, type
\* or destinations is missing from the mapping; otherwise the object is
\* constructed over the mapping, with or without rule and description.
C7_ConstructionRequiresNames ==
    rule_obj # NoObject
        => IF \E name \in {"id", "type", "destinations"} : ~HasKey(raw_def, name)
           THEN rule_obj = Raise("ValueError")
           ELSE rule_obj.kind = "RuleDef" /\ rule_obj.data = raw_def

C7_Witness ==
    /\ rule_obj.kind = "RuleDef"
    /\ ~HasKey(raw_def, "rule")
    /\ ~HasKey(raw_def, "description")

\* the value of a boolean property in the document, false when absent
DocBool(data, property) ==
    IF HasKey(data, property) THEN Item(data, property).b ELSE FALSE

\* every property of the rule is scratch or development
IsBoolRule(r) ==
    /\ IsDict(r) /\ r.d # <<>>
    /\ \A i \in 1..Len(r.d) : r.d[i].k \in {"scratch", "development"}

\* C8: the check of scratch and development succeeds exactly when the
\* expected boolean equals the document's value, taken as false when the
\* property is absent; a new rule object with only these properties
\* matches exactly when every one of them is equal.
C8_BooleanProperties ==
    (Called /\ IsDict(TheRule) /\ HasData(last_doc) /\ result.kind = "RuleMatch")
        => /\ \A i \in 1..Len(TheRule.d) :
                TheRule.d[i].k \in {"scratch", "development"}
                    => rule_obj.property_matches[Len(rule_obj.property_matches)
                                                 - Len(TheRule.d) + i]
                         = (TheRule.d[i].v.b = DocBool(TheData, TheRule.d[i].k))
           /\ (calls = 1 /\ IsBoolRule(TheRule))
                => result.matched =
                     (\A i \in 1..Len(TheRule.d) :
                         TheRule.d[i].v.b = DocBool(TheData, TheRule.d[i].k))

C8_Witness ==
    /\ Called /\ calls = 1 /\ HasData(last_doc)
    /\ TheRule = Dict(<<KV("scratch", Bool(TRUE))>>)
    /\ ~HasKey(TheData, "scratch")
    /\ result = RuleMatch(FALSE, None)

\* C9: a rule definition with no rule predicate (key absent, None or
\* empty) matches every document, whatever the document holds, and the
\* destination is the literal destinations value.
C9_NoPredicateMatches ==
    (Called /\ (IsNone(TheRule) \/ TheRule = Dict(<<>>)))
        => result = RuleMatch(TRUE, TheDest)

C9_Witness ==
    /\ Called /\ calls = MaxCalls
    /\ ~HasKey(raw_def, "rule")
    /\ ~HasData(last_doc)
    /\ result = RuleMatch(TRUE, TheDest)

\* C10: the outcome of every match call on a rule object equals the
\* outcome a newly constructed rule definition gives for the same
\* document, whatever documents were evaluated before.
C10_OutcomeIndependentOfHistory ==
    Called => result = FreshMatch(raw_def, last_doc)

(***************************************************************************)
(* Properties of handle and tag_build, checked under SpecHandle.           *)
(***************************************************************************)
\* an event has been handled and its metadata was retrieved and parsed
Retrieved == events >= 1 /\ event_msg.retrieval.status = "ok"

\* every rule definition is constructed and evaluated without an exception
EvaluatedAll ==
    /\ Retrieved
    /\ \A i \in 1..Len(rule_defs) :
          /\ RuleDefInit(rule_defs[i]).kind = "RuleDef"
          /\ FreshMatch(rule_defs[i], event_msg.retrieval.modulemd).kind = "RuleMatch"

\* at least one rule definition matches the document of the event
AnyMatched ==
    \E i \in 1..Len(rule_defs) :
        FreshMatch(rule_defs[i], event_msg.retrieval.modulemd).matched

\* the destination tags of one outcome: the tag, or the tags of a list
TagsOf(dest_tag) == IF IsList(dest_tag) THEN dest_tag.l ELSE <<dest_tag>>

RECURSIVE ResolvedTagsFrom(_, _, _)
\* the resolved destination tags of the matching rules from index i, in
\* rule definition order
ResolvedTagsFrom(defs, modulemd, i) ==
    IF i > Len(defs) THEN <<>>
    ELSE (IF FreshMatch(defs[i], modulemd).matched
          THEN TagsOf(FreshMatch(defs[i], modulemd).dest_tag) ELSE <<>>)
         \o ResolvedTagsFrom(defs, modulemd, i + 1)

\* tag_build has been called for the event
Invoked == pc \in {"krb_login", "tagBuild", "logout"} \/ klog # <<>>

\* C4: the tags handed to dispatch for one event are the flat sequence of
\* the resolved destination tag strings of the matching rules, in rule
\* definition order, also when destinations holds more than one tag.
C4_FlatTagsInRuleOrder ==
    (EvaluatedAll /\ AnyMatched)
        => /\ pc # "raised"
           /\ dest_tags = ResolvedTagsFrom(rule_defs, event_msg.retrieval.modulemd, 1)
           /\ \A i \in 1..Len(dest_tags) : IsStr(dest_tags[i])

\* C5: tag_build is invoked if and only if the retrieval succeeded, at
\* least one rule matched and dry-run is off; on an HTTP error, on no
\* match and in dry-run it is not invoked and handle returns normally.
C5_DispatchIffMatchedAndNotDryRun ==
    /\ (events >= 1 /\ event_msg.retrieval.status = "HTTPError")
          => ~Invoked /\ outcome = "returned"
    /\ (EvaluatedAll /\ ~AnyMatched) => ~Invoked /\ outcome = "returned"
    /\ (EvaluatedAll /\ AnyMatched /\ dry_run) => ~Invoked /\ outcome = "returned"
    /\ (EvaluatedAll /\ AnyMatched /\ ~dry_run) => Invoked
    /\ Invoked => EvaluatedAll /\ AnyMatched /\ ~dry_run

\* C6: in one tag_build the session is opened once, before any tagBuild;
\* tagBuild is attempted once for every tag, in order, whether or not the
\* earlier ones failed; logout comes after the last attempt and the batch
\* never ends without it.
C6_SessionBracketsEveryTag ==
    /\ \A i \in 1..Len(klog) :
          /\ (klog[i].op = "krb_login") = (i = 1)
          /\ klog[i].op = "tagBuild"
                => i - 1 \in 1..Len(dest_tags) /\ klog[i].tag = dest_tags[i - 1]
                   /\ klog[i].nvr = nvr
          /\ klog[i].op = "logout" => i = Len(dest_tags) + 2 /\ i = Len(klog)
    /\ (klog # <<>> /\ pc \notin {"tagBuild", "logout"})
          => /\ Len(klog) = Len(dest_tags) + 2
             /\ klog[Len(klog)].op = "logout"
             /\ session = "closed"
    /\ (session = "open") = (klog # <<>> /\ klog[Len(klog)].op # "logout")

C6_Witness ==
    /\ pc = "idle" /\ session = "closed"
    /\ Len(dest_tags) = 2 /\ Len(klog) = 4
    /\ ~klog[2].ok /\ klog[3].op = "tagBuild"
    /\ klog[4].op = "logout"

====
